---- MODULE Spec2Model ----
(***************************************************************************)
(* Keuangan Ketahanan Pangan Lele (WebAppKetahananPangan.py): the sqlite   *)
(* table "transaksi", the sidebar handlers that insert, update and delete  *)
(* its rows, the period labeller build_periode / week_of_month, and the    *)
(* listing and "Rekap Otomatis" rollup rendered at the end of every run.   *)
(*                                                                         *)
(* A Streamlit script run is one pass over the file.  Several browser      *)
(* sessions run the script against the same database file; every SQL       *)
(* statement is atomic (sqlite, "with conn:"), the statements of different *)
(* runs interleave.                                                        *)
(***************************************************************************)
EXTENDS Integers, Sequences, FiniteSets, TLC

\* ------------------------------------------------------------------ bounds

\* Calendar years the date widget offers in the labeller specification.
MinYear == 2023
MaxYear == 2024
\* Rows the table may hold at once, and ids the AUTOINCREMENT counter may
\* hand out.
MaxRows == 2
MaxSeq == 3

\* ------------------------------------------------------- calendar (datetime)

Date(y, m, d) == [year |-> y, month |-> m, day |-> d]

IsLeap(y) == y % 4 = 0 /\ (y % 100 # 0 \/ y % 400 = 0)

DaysInMonth(y, m) ==
    IF m = 2 THEN (IF IsLeap(y) THEN 29 ELSE 28)
    ELSE IF m \in {4, 6, 9, 11} THEN 30 ELSE 31

RECURSIVE DaysBeforeMonth(_, _)
DaysBeforeMonth(y, m) ==
    IF m = 1 THEN 0 ELSE DaysBeforeMonth(y, m - 1) + DaysInMonth(y, m - 1)

DaysBeforeYear(y) ==
    LET p == y - 1 IN p * 365 + (p \div 4) - (p \div 100) + (p \div 400)

\* date.toordinal(): 0001-01-01 is day 1.
ToOrdinal(dt) == DaysBeforeYear(dt.year) + DaysBeforeMonth(dt.year, dt.month) + dt.day

\* date.weekday(): Monday = 0 ... Sunday = 6.
Weekday(dt) == (ToOrdinal(dt) + 6) % 7

\* dt.replace(day=1)
ReplaceDay(dt, d) == [dt EXCEPT !.day = d]

Dates ==
    { Date(y, m, d) : y \in MinYear..MaxYear, m \in 1..12, d \in 1..31 }
        \ { dt \in [year : MinYear..MaxYear, month : 1..12, day : 29..31] :
                dt.day > DaysInMonth(dt.year, dt.month) }

\* ------------------------------------------------------------- strftime

\* LC_TIME locales the process may run under.  %B is the locale's full month
\* name; the program never calls setlocale, so the process starts in "C" and
\* stays in whatever the embedding runtime selected.
Locales == {"C", "id_ID"}

MonthNameC ==
    << "January", "February", "March", "April", "May", "June", "July",
       "August", "September", "October", "November", "December" >>

MonthNameID ==
    << "Januari", "Februari", "Maret", "April", "Mei", "Juni", "Juli",
       "Agustus", "September", "Oktober", "November", "Desember" >>

\* %B
FmtB(loc, dt) == IF loc = "id_ID" THEN MonthNameID[dt.month] ELSE MonthNameC[dt.month]

\* %m and %d: two digits, zero padded.
Pad2(n) == IF n < 10 THEN "0" \o ToString(n) ELSE ToString(n)

\* %Y (four digits for the years 1000..9999 the date widget allows).
FmtY(dt) == ToString(dt.year)

\* dt.strftime("%Y-%m-%d")
FmtYmd(dt) == FmtY(dt) \o "-" \o Pad2(dt.month) \o "-" \o Pad2(dt.day)

\* dt.strftime("%B %Y")
FmtBY(loc, dt) == FmtB(loc, dt) \o " " \o FmtY(dt)

\* ------------------------------------------------------------- labeller

KATEGORI == {"Harian", "Mingguan", "Bulanan", "Tahunan"}
JENIS == {"Pemasukan", "Pengeluaran"}

week_of_month_sunday(dt) ==
    LET first_day == ReplaceDay(dt, 1)
        dom == dt.day
        adjusted == dom + ((Weekday(first_day) + 1) % 7)
    IN  ((adjusted - 1) \div 7) + 1

week_of_month_mod(dt) ==
    LET first_day == ReplaceDay(dt, 1)
        dom == dt.day
        adjusted == dom + Weekday(first_day)
    IN  ((adjusted - 1) % 7) + 1

week_of_month(dt) ==
    LET first_day == ReplaceDay(dt, 1)
        dom == dt.day
        adjusted == dom + Weekday(first_day)
    IN  ((adjusted - 1) \div 7) + 1

build_periode(loc, dt, kategori) ==
    IF kategori = "Harian" THEN FmtYmd(dt)
    ELSE IF kategori = "Mingguan"
        THEN LET minggu_ke == week_of_month(dt)
             IN  FmtBY(loc, dt) \o " - Minggu " \o ToString(minggu_ke)
    ELSE IF kategori = "Bulanan" THEN FmtBY(loc, dt)
    ELSE IF kategori = "Tahunan" THEN FmtY(dt)
    ELSE ""

\* ------------------------------------------------------------- inputs

Sessions == {"A", "B"}

\* What the operator may have typed into the sidebar form when a button is
\* pressed: (Tanggal, Kategori, Jenis, Keterangan, Jumlah).  number_input has
\* min_value=0.0, so 0 is the smallest amount a form can carry.
Form(tgl, kategori, jenis, keterangan, jumlah) ==
    [tgl |-> tgl, kategori |-> kategori, jenis |-> jenis,
     keterangan |-> keterangan, jumlah |-> jumlah]

Forms ==
    { Form(Date(2024, 3, 1), "Bulanan", "Pemasukan", "jual lele", 500000),
      Form(Date(2024, 3, 4), "Bulanan", "Pengeluaran", "beli pakan", 200000),
      Form(Date(2024, 3, 4), "Mingguan", "Pemasukan", "", 0),
      Form(Date(2024, 9, 1), "Harian", "Pengeluaran", "Pakan lele", 300000) }

\* (Filter Kategori, Cari) pairs of the listing.
Filter(filter_kat, cari) == [filter_kat |-> filter_kat, cari |-> cari]

Filters ==
    { Filter("Semua", ""), Filter("Bulanan", " PAKAN ") }

\* ------------------------------------------------------------- state

VARIABLES
    locale,           \* LC_TIME of the process
    now,              \* wall clock (seconds), read by the created_at DEFAULT
    db,               \* table transaksi: a set of rows, one per id
    sqlite_sequence,  \* AUTOINCREMENT: the largest id ever handed out
    pick_id,          \* per session: pick_id of a run that has read df_all
                      \*   and stands before the two buttons (0: no such run)
    run,              \* what the last finished run did and reported
    caption,          \* "Periode otomatis" of the last run
    df,               \* listing rendered by the last run
    tbl,              \* rollup table rendered by the last run
    tgl_ditulis,      \* history: id -> Tanggal of the form that last wrote it
    pernah            \* history: every id the store has ever assigned

vars == << locale, now, db, sqlite_sequence, pick_id, run, caption, df, tbl,
           tgl_ditulis, pernah >>

Ids(rows) == { r.id : r \in rows }

RowOf(rows, id) == CHOOSE r \in rows : r.id = id

\* ------------------------------------------------------------- sqlite

\* INSERT INTO transaksi (periode, kategori, jenis, keterangan, jumlah):
\* id from AUTOINCREMENT, created_at from its DEFAULT.
NextIdMaxRowid(rows, seq) ==
    IF rows = {} THEN 1
    ELSE (CHOOSE i \in Ids(rows) : \A j \in Ids(rows) : j <= i) + 1

NextId(rows, seq) == seq + 1

InsertRow(rows, id, t, periode, f) ==
    rows \cup { [id |-> id, periode |-> periode, kategori |-> f.kategori,
                 jenis |-> f.jenis, keterangan |-> f.keterangan,
                 jumlah |-> f.jumlah, created_at |-> t] }

\* UPDATE transaksi SET periode=?, kategori=?, jenis=?, keterangan=?, jumlah=?
\* WHERE id=?
UpdateRowKeepPeriode(rows, id, periode, f) ==
    { IF r.id = id
        THEN [r EXCEPT !.kategori = f.kategori, !.jenis = f.jenis,
                       !.keterangan = f.keterangan, !.jumlah = f.jumlah]
        ELSE r : r \in rows }

UpdateRowAllRows(rows, id, periode, f) ==
    { [r EXCEPT !.periode = periode, !.kategori = f.kategori,
                !.jenis = f.jenis, !.keterangan = f.keterangan,
                !.jumlah = f.jumlah] : r \in rows }

UpdateRow(rows, id, periode, f) ==
    { IF r.id = id
        THEN [r EXCEPT !.periode = periode, !.kategori = f.kategori,
                       !.jenis = f.jenis, !.keterangan = f.keterangan,
                       !.jumlah = f.jumlah]
        ELSE r : r \in rows }

\* DELETE FROM transaksi WHERE id=?
DeleteRow(rows, id) == { r \in rows : r.id # id }

\* cursor.rowcount of an UPDATE / DELETE ... WHERE id=?
RowCount(rows, id) == IF id \in Ids(rows) THEN 1 ELSE 0

\* ------------------------------------------------------------- listing

\* str.strip() of the search box (blanks only).
RECURSIVE Strip(_)
Strip(s) ==
    IF Len(s) = 0 THEN s
    ELSE IF SubSeq(s, 1, 1) = " " THEN Strip(SubSeq(s, 2, Len(s)))
    ELSE IF SubSeq(s, Len(s), Len(s)) = " " THEN Strip(SubSeq(s, 1, Len(s) - 1))
    ELSE s

\* sqlite's LIKE folds the case of the ASCII letters.
FoldMap ==
    "A" :> "a" @@ "B" :> "b" @@ "C" :> "c" @@ "D" :> "d" @@ "E" :> "e" @@
    "F" :> "f" @@ "G" :> "g" @@ "H" :> "h" @@ "I" :> "i" @@ "J" :> "j" @@
    "K" :> "k" @@ "L" :> "l" @@ "M" :> "m" @@ "N" :> "n" @@ "O" :> "o" @@
    "P" :> "p" @@ "Q" :> "q" @@ "R" :> "r" @@ "S" :> "s" @@ "T" :> "t" @@
    "U" :> "u" @@ "V" :> "v" @@ "W" :> "w" @@ "X" :> "x" @@ "Y" :> "y" @@
    "Z" :> "z"

FoldChar(c) == IF c \in DOMAIN FoldMap THEN FoldMap[c] ELSE c

\* does the needle match the text at position i, letter case folded?
RECURSIVE MatchAt(_, _, _, _)
MatchAt(text, needle, i, k) ==
    \/ k > Len(needle)
    \/ /\ i + k - 1 <= Len(text)
       /\ FoldChar(SubSeq(text, i + k - 1, i + k - 1)) = FoldChar(SubSeq(needle, k, k))
       /\ MatchAt(text, needle, i, k + 1)

\* text LIKE '%' || needle || '%'
Like(text, needle) ==
    \E i \in 1..(Len(text) - Len(needle) + 1) : MatchAt(text, needle, i, 1)

\* The WHERE clause built from the two filter widgets.
Matches(r, flt) ==
    /\ flt.filter_kat # "Semua" => r.kategori = flt.filter_kat
    /\ Strip(flt.cari) # "" =>
          LET like == Strip(flt.cari)
          IN  Like(r.periode, like) \/ Like(r.jenis, like) \/ Like(r.keterangan, like)

\* ORDER BY id DESC
RECURSIVE OrderByIdDesc(_)
OrderByIdDesc(rows) ==
    IF rows = {} THEN << >>
    ELSE LET top == CHOOSE r \in rows : \A q \in rows : q.id <= r.id
         IN  << top >> \o OrderByIdDesc(rows \ {top})

\* pd.read_sql_query("SELECT ... FROM transaksi [WHERE ...] ORDER BY id DESC")
ReadSql(rows, flt) == OrderByIdDesc({ r \in rows : Matches(r, flt) })

Range(seq) == { seq[i] : i \in 1..Len(seq) }

\* ------------------------------------------------------------- rollup

\* sum of the column jumlah over the rows of a frame
RECURSIVE SumJumlah(_)
SumJumlah(rows) ==
    IF rows = {} THEN 0
    ELSE LET r == CHOOSE r \in rows : TRUE IN r.jumlah + SumJumlah(rows \ {r})

\* df.groupby(["kategori", "jenis"]).agg(total=("jumlah", "sum")): one total
\* per (kategori, jenis) pair that occurs.
GroupTotal(frame, k, j) ==
    SumJumlah({ r \in Range(frame) : r.kategori = k /\ r.jenis = j })

\* series.get(col, 0) of a pivoted row
Get(row, col) == IF col \in DOMAIN row THEN row[col] ELSE 0

\* pivot(index="kategori", columns="jenis", values="total").fillna(0), then
\* the column "Saldo": one row per kategori that occurs, one column per jenis
\* that occurs anywhere in the frame.
RekapSaldoSum(frame) ==
    LET kats == { r.kategori : r \in Range(frame) }
        cols == { r.jenis : r \in Range(frame) }
        pivot == [k \in kats |-> [j \in cols |-> GroupTotal(frame, k, j)]]
    IN  [k \in kats |->
            [c \in cols \cup {"Saldo"} |->
                IF c = "Saldo"
                    THEN Get(pivot[k], "Pemasukan") + Get(pivot[k], "Pengeluaran")
                    ELSE pivot[k][c]]]

Rekap(frame) ==
    LET kats == { r.kategori : r \in Range(frame) }
        cols == { r.jenis : r \in Range(frame) }
        pivot == [k \in kats |-> [j \in cols |-> GroupTotal(frame, k, j)]]
    IN  [k \in kats |->
            [c \in cols \cup {"Saldo"} |->
                IF c = "Saldo"
                    THEN Get(pivot[k], "Pemasukan") - Get(pivot[k], "Pengeluaran")
                    ELSE pivot[k][c]]]

\* ------------------------------------------------------------- script run

\* date.today(), the default of the date widgets.
Today == Date(2024, 3, 1)

\* The sidebar's Kategori and Tanggal widgets and the caption
\* "Periode otomatis" computed from them.
Caption(loc, tgl, kategori) ==
    [tgl |-> tgl, kategori |-> kategori, periode |-> build_periode(loc, tgl, kategori)]

\* What a run reports: the button it served, the rowcount of its statement,
\* and the status element it emitted.
Report(op, rowcount, msg) == [op |-> op, rowcount |-> rowcount, msg |-> msg]

\* The "Data Transaksi" and "Rekap Otomatis" sections every run ends with.
Render(rows, flt) ==
    /\ df' = ReadSql(rows, flt)
    /\ tbl' = IF df' = << >> THEN << >> ELSE Rekap(df')

Init ==
    /\ locale \in Locales
    /\ now = 1
    /\ db = {}
    /\ sqlite_sequence = 0
    /\ pick_id = [s \in Sessions |-> 0]
    /\ run = Report("Mulai", 0, "")
    /\ caption = Caption(locale, Today, "Harian")
    /\ df = << >>
    /\ tbl = << >>
    /\ tgl_ditulis = << >>
    /\ pernah = {}

\* Mode "Tambah", button "Simpan Transaksi".
SimpanTransaksi(s, f, flt) ==
    /\ pick_id[s] = 0
    /\ caption' = Caption(locale, f.tgl, f.kategori)
    /\ IF f.jumlah = 0 \/ f.jumlah <= 0
         THEN /\ run' = Report("Tambah", 0, "Jumlah harus lebih dari 0")
              /\ UNCHANGED << now, db, sqlite_sequence, tgl_ditulis, pernah >>
         ELSE IF f.jenis = ""
         THEN /\ run' = Report("Tambah", 0, "Pilih jenis transaksi")
              /\ UNCHANGED << now, db, sqlite_sequence, tgl_ditulis, pernah >>
         ELSE LET id == NextId(db, sqlite_sequence) IN
              /\ Cardinality(db) < MaxRows
              /\ sqlite_sequence < MaxSeq
              /\ db' = InsertRow(db, id, now, caption'.periode, f)
              /\ now' = now + 1
              /\ sqlite_sequence' = IF id > sqlite_sequence THEN id ELSE sqlite_sequence
              /\ tgl_ditulis' = [i \in Ids(db') |-> IF i = id THEN f.tgl ELSE tgl_ditulis[i]]
              /\ pernah' = pernah \cup {id}
              /\ run' = Report("Tambah", 1, "Data tersimpan")
    /\ Render(db', flt)
    /\ UNCHANGED << locale, pick_id >>

\* Mode "Edit/Hapus": the run reads df_all, the selectbox yields one of its
\* ids, the edit widgets are drawn; the run now stands before the buttons.
PilihTransaksi(s, id) ==
    /\ pick_id[s] = 0
    /\ id \in Ids(db)
    /\ pick_id' = [pick_id EXCEPT ![s] = id]
    /\ UNCHANGED << locale, now, db, sqlite_sequence, run, caption, df, tbl,
                    tgl_ditulis, pernah >>

\* Button "Simpan Perubahan".
SimpanPerubahan(s, f, flt) ==
    /\ pick_id[s] # 0
    /\ LET periode_e == build_periode(locale, f.tgl, f.kategori) IN
       /\ db' = UpdateRow(db, pick_id[s], periode_e, f)
       /\ caption' = Caption(locale, f.tgl, f.kategori)
    /\ run' = Report("Perubahan", RowCount(db, pick_id[s]), "Data diperbarui")
    /\ tgl_ditulis' = [i \in Ids(db') |-> IF i = pick_id[s] THEN f.tgl ELSE tgl_ditulis[i]]
    /\ pick_id' = [pick_id EXCEPT ![s] = 0]
    /\ Render(db', flt)
    /\ UNCHANGED << locale, now, sqlite_sequence, pernah >>

\* Button "Hapus Data".
HapusData(s, flt) ==
    /\ pick_id[s] # 0
    /\ db' = DeleteRow(db, pick_id[s])
    /\ run' = Report("Hapus", RowCount(db, pick_id[s]), "Data dihapus")
    /\ tgl_ditulis' = [i \in Ids(db') |-> tgl_ditulis[i]]
    /\ pick_id' = [pick_id EXCEPT ![s] = 0]
    /\ Render(db', flt)
    /\ UNCHANGED << locale, now, sqlite_sequence, caption, pernah >>

\* A run in which no button is pressed (a widget changed, "Refresh Data").
TampilData(s, tgl, kategori, flt) ==
    /\ caption' = Caption(locale, tgl, kategori)
    /\ run' = Report("Tampil", 0, "")
    /\ pick_id' = [pick_id EXCEPT ![s] = 0]
    /\ Render(db, flt)
    /\ UNCHANGED << locale, now, db, sqlite_sequence, tgl_ditulis, pernah >>

\* Runs that press a button keep the listing's filter widgets at their
\* defaults; a run that presses none may carry any of Filters.
NoFilter == Filter("Semua", "")

Next ==
    \/ \E s \in Sessions, f \in Forms : SimpanTransaksi(s, f, NoFilter)
    \/ \E s \in Sessions, id \in 1..MaxSeq : PilihTransaksi(s, id)
    \/ \E s \in Sessions, f \in Forms : SimpanPerubahan(s, f, NoFilter)
    \/ \E s \in Sessions : HapusData(s, NoFilter)
    \/ \E s \in Sessions, flt \in Filters : TampilData(s, Today, "Harian", flt)

Spec == Init /\ [][Next]_vars

\* The labeller alone: the operator steps the date widget a day forward or
\* back, or picks another category, and the run recomputes the caption.
NextDay(dt) ==
    IF dt.day < DaysInMonth(dt.year, dt.month) THEN Date(dt.year, dt.month, dt.day + 1)
    ELSE IF dt.month < 12 THEN Date(dt.year, dt.month + 1, 1)
    ELSE Date(dt.year + 1, 1, 1)

PrevDay(dt) ==
    IF dt.day > 1 THEN Date(dt.year, dt.month, dt.day - 1)
    ELSE IF dt.month > 1 THEN Date(dt.year, dt.month - 1, DaysInMonth(dt.year, dt.month - 1))
    ELSE Date(dt.year - 1, 12, 31)

NextLabel ==
    \E s \in Sessions, tgl \in {caption.tgl, NextDay(caption.tgl), PrevDay(caption.tgl)} \cap Dates,
       kategori \in KATEGORI :
        TampilData(s, tgl, kategori, NoFilter)

SpecLabel == Init /\ [][NextLabel]_vars

\* ------------------------------------------------------------- properties

\* A step in which session s presses the button op of the Edit/Hapus form.
EditStep(s, op) == pick_id[s] # 0 /\ pick_id'[s] = 0 /\ run'.op = op

\* validate(candidate) of the specification, on a stored row.
Valid(r) == r.jumlah > 0 /\ r.jenis \in JENIS /\ r.kategori \in KATEGORI

\* C1: every record in the store has amount > 0, whatever sequence of
\* create, edit and delete submissions produced it.
C1_AmountPositive == \A r \in db : r.jumlah > 0

\* C2: a delete of an id that is not in the store is reported as NotFound
\* and leaves the store as it was.
C2_DeleteMissingNotFound ==
    [][\A s \in Sessions :
          (EditStep(s, "Hapus") /\ pick_id[s] \notin Ids(db))
              => (run'.msg = "NotFound" /\ db' = db)]_vars

\* C3: validation precedes persistence: no step writes (inserts, or changes)
\* a row that fails validation.
C3_NoInvalidWrite == [][\A r \in db' \ db : Valid(r)]_vars

\* C4: every stored period is the label of the date submitted by the
\* operation that last wrote the record and of the record's stored category.
C4_PeriodeIsLabel ==
    \A r \in db : r.periode = build_periode(locale, tgl_ditulis[r.id], r.kategori)

C4_Witness ==
    /\ run = Report("Perubahan", 1, "Data diperbarui")
    /\ \E r \in db : /\ r.kategori = "Mingguan"
                     /\ r.created_at < now
                     /\ tgl_ditulis[r.id] = Date(2024, 3, 4)

\* C5: the Weekly and Monthly labels take the month name from the fixed
\* Indonesian table, whatever the locale; 2024-03-01 is "Maret 2024 - Minggu 1"
\* and 2024-03-04 is "Maret 2024 - Minggu 2".
C5_IndonesianMonthTable ==
    LET d == caption.tgl
        bulan == MonthNameID[d.month] \o " " \o ToString(d.year)
    IN  /\ caption.kategori = "Bulanan" => caption.periode = bulan
        /\ caption.kategori = "Mingguan" =>
              caption.periode = bulan \o " - Minggu " \o ToString(week_of_month(d))
        /\ (caption.kategori = "Mingguan" /\ d = Date(2024, 3, 1)) =>
              caption.periode = "Maret 2024 - Minggu 1"
        /\ (caption.kategori = "Mingguan" /\ d = Date(2024, 3, 4)) =>
              caption.periode = "Maret 2024 - Minggu 2"

\* C6: the week number in a Weekly label is floor((dom - 1 + offset) / 7) + 1
\* with offset the Monday-based weekday of the 1st; it lies in 1..6; in a
\* month that starts on a Sunday day 1 is week 1 and day 2 is week 2
\* (September 2024 is such a month).
C6_WeekFormula ==
    caption.kategori = "Mingguan" =>
        LET d == caption.tgl
            offset == Weekday(Date(d.year, d.month, 1))
            W == ((d.day - 1 + offset) \div 7) + 1
            minggu(n) == FmtBY(locale, d) \o " - Minggu " \o ToString(n)
        IN  /\ caption.periode = minggu(W)
            /\ W \in 1..6
            /\ (offset = 6 /\ d.day = 1) => caption.periode = minggu(1)
            /\ (offset = 6 /\ d.day = 2) => caption.periode = minggu(2)
            /\ (d.year = 2024 /\ d.month = 9 /\ d.day = 1) => caption.periode = minggu(1)
            /\ (d.year = 2024 /\ d.month = 9 /\ d.day = 2) => caption.periode = minggu(2)

C6_Witness ==
    /\ run.op = "Tampil"
    /\ caption.kategori = "Mingguan"
    /\ caption.tgl = Date(2024, 9, 2)
    /\ Weekday(Date(2024, 9, 1)) = 6

\* C7: within the month of the date shown, the week number never decreases
\* from a day to a later day, and grows by at most 1 from a day to the next.
C7_WeekMonotone ==
    LET d == caption.tgl
        last == DaysInMonth(d.year, d.month)
    IN  /\ \A d2 \in d.day..last : week_of_month(d) <= week_of_month(ReplaceDay(d, d2))
        /\ d.day < last =>
              week_of_month(ReplaceDay(d, d.day + 1)) - week_of_month(d) \in {0, 1}

C7_Witness ==
    /\ run.op = "Tampil"
    /\ caption.tgl.day = 30
    /\ week_of_month(caption.tgl) = 6
    /\ week_of_month(ReplaceDay(caption.tgl, 1)) = 1

\* sum of jumlah over the rows of a listing that satisfy a condition
RECURSIVE C8_Total(_, _, _, _)
C8_Total(frame, n, k, j) ==
    IF n = 0 THEN 0
    ELSE C8_Total(frame, n - 1, k, j)
           + (IF frame[n].kategori = k /\ frame[n].jenis = j THEN frame[n].jumlah ELSE 0)

\* C8: the rollup of a non-empty listing has one row per category present;
\* its Pemasukan and Pengeluaran totals are the sums over that category's
\* records of the kind (an absent kind reads 0), Saldo is their difference;
\* Bulanan with 500000 in and 200000 out has Saldo 300000.
C8_Rollup ==
    df # << >> =>
        /\ DOMAIN tbl = { df[i].kategori : i \in 1..Len(df) }
        /\ \A k \in DOMAIN tbl :
              LET masuk == C8_Total(df, Len(df), k, "Pemasukan")
                  keluar == C8_Total(df, Len(df), k, "Pengeluaran")
              IN  /\ Get(tbl[k], "Pemasukan") = masuk
                  /\ Get(tbl[k], "Pengeluaran") = keluar
                  /\ tbl[k]["Saldo"] = masuk - keluar
                  /\ (\A i \in 1..Len(df) :
                         df[i].kategori = k => df[i].jenis = "Pemasukan")
                        => tbl[k]["Saldo"] = Get(tbl[k], "Pemasukan")
                  /\ (masuk = 500000 /\ keluar = 200000) => tbl[k]["Saldo"] = 300000

C8_Witness ==
    /\ Len(df) = 2
    /\ "Bulanan" \in DOMAIN tbl
    /\ tbl["Bulanan"] = [Pemasukan |-> 500000, Pengeluaran |-> 200000, Saldo |-> 300000]

\* C9: an edit of record i replaces period, category, kind, description and
\* amount together, by the values of one submission, and changes neither the
\* record's id and created_at, nor any other record, nor the set of ids.
C9_EditAtomicFrame ==
    [][\A s \in Sessions : EditStep(s, "Perubahan") =>
          /\ Ids(db') = Ids(db)
          /\ \A r \in db :
                IF r.id # pick_id[s] THEN r \in db'
                ELSE \E f \in Forms :
                        RowOf(db', r.id) =
                            [id |-> r.id, created_at |-> r.created_at,
                             periode |-> build_periode(locale, f.tgl, f.kategori),
                             kategori |-> f.kategori, jenis |-> f.jenis,
                             keterangan |-> f.keterangan, jumlah |-> f.jumlah]]_vars

C9_Witness ==
    /\ run = Report("Perubahan", 1, "Data diperbarui")
    /\ Cardinality(db) = 2
    /\ \E r \in db : r.kategori = "Mingguan" /\ r.keterangan = "" /\ r.created_at < now

\* C10: the id given to a newly inserted record was never assigned before,
\* not even to a record since deleted, and no two stored records share an id.
C10_IdNeverReused ==
    [][/\ \A r \in db' : r.id \notin Ids(db) => r.id \notin pernah
       /\ \A r1, r2 \in db' : r1.id = r2.id => r1 = r2]_vars

C10_Witness ==
    /\ run = Report("Tambah", 1, "Data tersimpan")
    /\ pernah \ Ids(db) # {}
    /\ \E r \in db : \A i \in pernah : i <= r.id

====
